---- MODULE Spec2Model ----
(***************************************************************************)
(* Model of package config (src/config.go): the function Parse, which      *)
(* validates an environment variable prefix, renders the configuration     *)
(* target as JSON, registers and parses the command line flags, and either *)
(* returns usage/version text or substitutes ${NAME} placeholders in the   *)
(* configuration string and decodes it into the target.                    *)
(*                                                                         *)
(* Text is a sequence of one-character strings.  The literal fragments of  *)
(* the format strings of the source (messages, labels) are kept as single  *)
(* elements of such a sequence; everything the code scans (prefixes,       *)
(* arguments, environment values, JSON) is character by character.         *)
(***************************************************************************)
EXTENDS Integers, Sequences, FiniteSets, TLC

VARIABLES
    osArgs,        \* os.Args: the program name followed by the arguments
    environ,       \* the process environment: a function from names to values
    envVarPrefix,  \* parameter envVarPrefix of Parse (reassigned at line 109)
    info,          \* parameter info: NilInfo or <<r>> for a pointer to r
    conf,          \* parameter conf: the configuration target
    confRef,       \* local confRef: the indented JSON rendering of conf
    fs,            \* the flag set: the formal flags registered so far
    output,        \* local output: the buffer the flag set writes to
    configJSON,    \* local configJSON, bound to the flag "config"
    version,       \* local version, bound to the flag "version"
    err,           \* local err
    ret,           \* the pair Parse returned: [text, err]
    pc,            \* the position of the call inside Parse
    calls,         \* number of calls of Parse started so far
    prefixArg,     \* history: envVarPrefix as passed by the caller
    confArg,       \* history: the target as it was when Parse was called
    envReads,      \* history: the environment names looked up by this call
    argsRead,      \* history: TRUE once this call has read os.Args
    resolved,      \* history: <<s>> once the substitution has read configJSON = s
    decoderInput   \* history: <<s>> once s has been handed to json.Unmarshal

vars == <<osArgs, environ, envVarPrefix, info, conf, confRef, fs, output,
          configJSON, version, err, ret, pc, calls, prefixArg, confArg,
          envReads, argsRead, resolved, decoderInput>>

(***************************************************************************)
(* Bounds of the model.                                                    *)
(***************************************************************************)
MaxCalls == 1

(***************************************************************************)
(* Characters and the string functions of package strings the code uses.   *)
(***************************************************************************)
UpperSeq == <<"A","B","C","D","E","F","G","H","I","J","K","L","M",
              "N","O","P","Q","R","S","T","U","V","W","X","Y","Z">>
LowerSeq == <<"a","b","c","d","e","f","g","h","i","j","k","l","m",
              "n","o","p","q","r","s","t","u","v","w","x","y","z">>
DigitSeq == <<"0","1","2","3","4","5","6","7","8","9">>

Range(s) == {s[i] : i \in DOMAIN s}

Upper == Range(UpperSeq)
Lower == Range(LowerSeq)
Digit == Range(DigitSeq)

\* [A-Z0-9_] and [A-Z0-9], the character classes of both regular expressions.
WordChar == Upper \cup Digit \cup {"_"}
TailChar == Upper \cup Digit

\* strings.ToUpper, on the ASCII letters.
ToUpperChar(c) ==
    IF c \in Lower
    THEN UpperSeq[CHOOSE i \in DOMAIN LowerSeq : LowerSeq[i] = c]
    ELSE c

ToUpper(s) == [i \in DOMAIN s |-> ToUpperChar(s[i])]

\* strings.Trim(s, cutset): drop the leading and trailing characters in cutset.
Trim(s, cutset) ==
    LET keep == {i \in DOMAIN s : s[i] \notin cutset}
    IN  IF keep = {} THEN <<>>
        ELSE LET lo == CHOOSE i \in keep : \A j \in keep : i <= j
                 hi == CHOOSE i \in keep : \A j \in keep : j <= i
             IN  SubSeq(s, lo, hi)

\* strings.TrimSpace.
Space == {" ", "\t", "\n", "\r"}
TrimSpace(s) == Trim(s, Space)

HasPrefix(s, p) == Len(s) >= Len(p) /\ SubSeq(s, 1, Len(p)) = p
HasSuffix(s, p) == Len(s) >= Len(p) /\ SubSeq(s, Len(s) - Len(p) + 1, Len(s)) = p

\* strings.TrimPrefix and strings.TrimSuffix.
TrimPrefix(s, p) == IF HasPrefix(s, p) THEN SubSeq(s, Len(p) + 1, Len(s)) ELSE s
TrimSuffix(s, p) == IF HasSuffix(s, p) THEN SubSeq(s, 1, Len(s) - Len(p)) ELSE s

(***************************************************************************)
(* envVarPrefixRegex: \A[A-Z][A-Z0-9_]*?[A-Z0-9]\z                         *)
(***************************************************************************)
envVarPrefixRegexLoose(s) ==
    /\ Len(s) >= 2
    /\ ToUpperChar(s[1]) \in Upper
    /\ \A i \in 2..(Len(s) - 1) : ToUpperChar(s[i]) \in WordChar
    /\ ToUpperChar(s[Len(s)]) \in TailChar

envVarPrefixRegex(s) ==
    /\ Len(s) >= 2
    /\ s[1] \in Upper
    /\ \A i \in 2..(Len(s) - 1) : s[i] \in WordChar
    /\ s[Len(s)] \in TailChar

(***************************************************************************)
(* placeHolderRegex: (?P<PLACEHOLDER>\$\{[A-Z][A-Z0-9_]*?[A-Z0-9]\})       *)
(* MatchEnd(s, i) is the index of the last character of the match that     *)
(* starts at index i, or 0 when no match starts there.  The name is the    *)
(* run of [A-Z0-9_] after "${"; as "}" is outside that class, the lazy     *)
(* star can only stop at the end of the run.                               *)
(***************************************************************************)
RECURSIVE RunEnd(_, _)
RunEnd(s, i) ==
    IF i <= Len(s) /\ s[i] \in WordChar THEN RunEnd(s, i + 1) ELSE i - 1

MatchEnd(s, i) ==
    IF i + 1 <= Len(s) /\ s[i] = "$" /\ s[i + 1] = "{"
    THEN LET e == RunEnd(s, i + 2)
         IN  IF /\ e >= i + 3
                /\ s[i + 2] \in Upper
                /\ s[e] \in TailChar
                /\ e + 1 <= Len(s)
                /\ s[e + 1] = "}"
             THEN e + 1
             ELSE 0
    ELSE 0

\* The non-overlapping matches of placeHolderRegex in s from index i on,
\* leftmost first, as regexp.ReplaceAllStringFunc visits them.
RECURSIVE Matches(_, _)
Matches(s, i) ==
    IF i > Len(s) THEN <<>>
    ELSE LET e == MatchEnd(s, i)
         IN  IF e = 0 THEN Matches(s, i + 1)
             ELSE <<SubSeq(s, i, e)>> \o Matches(s, e + 1)

(***************************************************************************)
(* EnvWithPrefix: getEnvKey and getEnv, over the environment env.          *)
(***************************************************************************)
getEnvKey(prefix, key) == prefix \o key

getEnvNoLookup(env, prefix, key, defVal) == defVal

getEnv(env, prefix, key, defVal) ==
    IF getEnvKey(prefix, key) \in DOMAIN env
    THEN env[getEnvKey(prefix, key)]
    ELSE defVal

\* sanitizePlaceholderToken
sanitizePlaceholderToken(envvar) ==
    TrimSuffix(TrimPrefix(envvar, <<"$", "{">>), <<"}">>)

\* A replacement that leaves the placeholder of an undefined variable.
ReplacementKeepToken(env, prefix, group) ==
    getEnv(env, prefix, sanitizePlaceholderToken(group), group)

\* The function literal passed to ReplaceAllStringFunc (lines 161-165).
Replacement(env, prefix, group) ==
    getEnv(env, prefix, sanitizePlaceholderToken(group), <<>>)

\* placeHolderRegex.ReplaceAllStringFunc(s, Replacement): one pass over s;
\* the text a replacement puts in is copied out and never scanned.
RECURSIVE ReplaceAllFrom(_, _, _, _)
ReplaceAllFrom(s, i, env, prefix) ==
    IF i > Len(s) THEN <<>>
    ELSE LET e == MatchEnd(s, i)
         IN  IF e = 0
             THEN <<s[i]>> \o ReplaceAllFrom(s, i + 1, env, prefix)
             ELSE Replacement(env, prefix, SubSeq(s, i, e))
                      \o ReplaceAllFrom(s, e + 1, env, prefix)

\* A substitution that rescans its own output until nothing matches.
RECURSIVE ReplaceAllRescan(_, _, _, _)
ReplaceAllRescan(s, n, env, prefix) ==
    LET t == ReplaceAllFrom(s, 1, env, prefix)
    IN  IF t = s \/ n = 0 THEN t ELSE ReplaceAllRescan(t, n - 1, env, prefix)

ReplaceAllTwice(s, env, prefix) == ReplaceAllRescan(s, 1, env, prefix)

ReplaceAllStringFunc(s, env, prefix) == ReplaceAllFrom(s, 1, env, prefix)

\* The environment names the substitution of s looks up.
PlaceholderKeys(s, prefix) ==
    {getEnvKey(prefix, sanitizePlaceholderToken(g)) : g \in Range(Matches(s, 1))}

(***************************************************************************)
(* Errors.  An error is a record of its kind in the package's taxonomy and *)
(* its message; Nil is the nil error.                                      *)
(***************************************************************************)
Nil == [kind |-> "nil", msg |-> <<>>]

Error(kind, msg) == [kind |-> kind, msg |-> msg]

\* flag.ErrHelp
ErrHelp == Error("ErrHelp", <<"flag: help requested">>)

(***************************************************************************)
(* The configuration target.  kind is the dynamic type of conf:            *)
(*   "nil"    the nil interface                                            *)
(*   "chan"   a channel, as in TestCli (make(chan int))                    *)
(*   "map"    a map passed by value, as in TestCli (conf)                  *)
(*   "struct" a pointer to a testConf, as in TestCliConfig                 *)
(* val holds the fields of the testConf a "struct" target points to.       *)
(***************************************************************************)
TestConf(id, name, online) == [ID |-> id, Name |-> name, Online |-> online]

Target(kind, val) == [kind |-> kind, val |-> val]

(***************************************************************************)
(* encoding/json, on the values the targets above hold: flat objects whose *)
(* values are strings without escapes, non-negative integers, booleans     *)
(* and null.                                                               *)
(***************************************************************************)
RECURSIVE Itoa(_)
Itoa(n) == IF n < 10 THEN <<DigitSeq[n + 1]>>
           ELSE Itoa(n \div 10) \o <<DigitSeq[(n % 10) + 1]>>

DigitVal(c) == (CHOOSE i \in DOMAIN DigitSeq : DigitSeq[i] = c) - 1

RECURSIVE Atoi(_)
Atoi(s) == IF Len(s) = 0 THEN 0
           ELSE 10 * Atoi(SubSeq(s, 1, Len(s) - 1)) + DigitVal(s[Len(s)])

\* A JSON string literal for s: quotes and backslashes are escaped.
RECURSIVE Escape(_)
Escape(s) ==
    IF Len(s) = 0 THEN <<>>
    ELSE (IF Head(s) \in {"\"", "\\"} THEN <<"\\", Head(s)>> ELSE <<Head(s)>>)
             \o Escape(Tail(s))

Quote(s) == <<"\"">> \o Escape(s) \o <<"\"">>

Bool(b) == IF b THEN <<"t","r","u","e">> ELSE <<"f","a","l","s","e">>

\* The indented rendering of a value the encoder supports.
MarshalValue(c, prefix, indent) ==
    CASE c.kind = "nil" -> <<"n","u","l","l">>
      [] c.kind = "map" -> <<"{", "}">>
      [] c.kind = "struct" ->
            <<"{", "\n">> \o prefix \o indent
                \o Quote(<<"i","d">>) \o <<":", " ">> \o Itoa(c.val.ID)
                \o <<",", "\n">> \o prefix \o indent
                \o Quote(<<"n","a","m","e">>) \o <<":", " ">> \o Quote(c.val.Name)
                \o <<",", "\n">> \o prefix \o indent
                \o Quote(<<"o","n","l","i","n","e">>) \o <<":", " ">>
                \o Bool(c.val.Online)
                \o <<"\n">> \o prefix \o <<"}">>

\* An encoder that renders a channel as null.
MarshalIndentAny(c, prefix, indent) ==
    [err |-> Nil,
     json |-> IF c.kind = "chan" THEN <<"n","u","l","l">>
              ELSE MarshalValue(c, prefix, indent)]

\* json.MarshalIndent(conf, prefix, indent): [err, json].  A channel is
\* not supported.
MarshalIndent(c, prefix, indent) ==
    IF c.kind = "chan"
    THEN [err |-> Error("Serialization", <<"json: unsupported type: chan int">>),
          json |-> <<>>]
    ELSE [err |-> Nil, json |-> MarshalValue(c, prefix, indent)]

\* The scanner of the decoder.
RECURSIVE SkipSpace(_, _)
SkipSpace(s, i) ==
    IF i <= Len(s) /\ s[i] \in Space THEN SkipSpace(s, i + 1) ELSE i

RECURSIVE QuoteEnd(_, _)
QuoteEnd(s, i) ==
    IF i > Len(s) THEN 0 ELSE IF s[i] = "\"" THEN i ELSE QuoteEnd(s, i + 1)

RECURSIVE DigitsEnd(_, _)
DigitsEnd(s, i) ==
    IF i <= Len(s) /\ s[i] \in Digit THEN DigitsEnd(s, i + 1) ELSE i - 1

NoValue == [ok |-> FALSE, next |-> 0, type |-> "", str |-> <<>>, num |-> 0]

Value(next, type, str, num) ==
    [ok |-> TRUE, next |-> next, type |-> type, str |-> str, num |-> num]

ScanString(s, i) ==
    IF i <= Len(s) /\ s[i] = "\""
    THEN LET e == QuoteEnd(s, i + 1)
         IN  IF e = 0 THEN NoValue
             ELSE Value(e + 1, "string", SubSeq(s, i + 1, e - 1), 0)
    ELSE NoValue

\* A literal name; a boolean carries 1 for true and 0 for false.
ScanLiteral(s, i, word, type, num) ==
    IF i + Len(word) - 1 <= Len(s) /\ SubSeq(s, i, i + Len(word) - 1) = word
    THEN Value(i + Len(word), type, <<>>, num)
    ELSE NoValue

ScanScalar(s, i) ==
    IF i > Len(s) THEN NoValue
    ELSE CASE s[i] = "\"" -> ScanString(s, i)
           [] s[i] \in Digit ->
                LET e == DigitsEnd(s, i)
                IN  IF e > i /\ s[i] = "0" THEN NoValue
                    ELSE Value(e + 1, "number", <<>>, Atoi(SubSeq(s, i, e)))
           [] s[i] = "t" -> ScanLiteral(s, i, <<"t","r","u","e">>, "bool", 1)
           [] s[i] = "f" -> ScanLiteral(s, i, <<"f","a","l","s","e">>, "bool", 0)
           [] s[i] = "n" -> ScanLiteral(s, i, <<"n","u","l","l">>, "null", 0)
           [] OTHER -> NoValue

NoMembers == [ok |-> FALSE, next |-> 0, members |-> <<>>]

\* The members of an object, from the first character of a key on.
RECURSIVE ScanMembers(_, _)
ScanMembers(s, i) ==
    LET k == ScanString(s, i)
        c == SkipSpace(s, k.next)
        v == ScanScalar(s, SkipSpace(s, c + 1))
        d == SkipSpace(s, v.next)
        m == [key |-> k.str, type |-> v.type, str |-> v.str, num |-> v.num]
    IN  IF ~k.ok \/ c > Len(s) THEN NoMembers
        ELSE IF s[c] # ":" \/ ~v.ok \/ d > Len(s) THEN NoMembers
        ELSE IF s[d] = "}"
             THEN [ok |-> TRUE, next |-> d + 1, members |-> <<m>>]
        ELSE IF s[d] = ","
             THEN LET r == ScanMembers(s, SkipSpace(s, d + 1))
                  IN  IF r.ok
                      THEN [ok |-> TRUE, next |-> r.next, members |-> <<m>> \o r.members]
                      ELSE NoMembers
        ELSE NoMembers

\* The whole input: [ok, object, members]; ok is what checkValid decides.
ScanJSON(s) ==
    LET i == SkipSpace(s, 1)
    IN  IF i > Len(s) THEN [ok |-> FALSE, object |-> FALSE, type |-> "", members |-> <<>>]
        ELSE IF s[i] = "{"
        THEN LET j == SkipSpace(s, i + 1)
                 r == IF j <= Len(s) /\ s[j] = "}"
                      THEN [ok |-> TRUE, next |-> j + 1, members |-> <<>>]
                      ELSE ScanMembers(s, j)
             IN  [ok |-> r.ok /\ SkipSpace(s, r.next) = Len(s) + 1,
                  object |-> TRUE, type |-> "object", members |-> r.members]
        ELSE LET v == ScanScalar(s, i)
             IN  [ok |-> v.ok /\ SkipSpace(s, v.next) = Len(s) + 1,
                  object |-> FALSE, type |-> v.type, members |-> <<>>]

TypeError(type, field, goType) ==
    Error("Decode", <<"json: cannot unmarshal ", type, " into Go struct field testConf.",
                      field, " of type ", goType>>)

\* The decoder stores one member into the struct: [val, err].  A null is
\* skipped, an unknown key is ignored, and a value of the wrong type is
\* reported and skipped.
Store(val, m) ==
    IF m.type = "null" THEN [val |-> val, err |-> Nil]
    ELSE CASE m.key = <<"i","d">> ->
                IF m.type = "number"
                THEN [val |-> [val EXCEPT !.ID = m.num], err |-> Nil]
                ELSE [val |-> val, err |-> TypeError(m.type, "id", "int")]
           [] m.key = <<"n","a","m","e">> ->
                IF m.type = "string"
                THEN [val |-> [val EXCEPT !.Name = m.str], err |-> Nil]
                ELSE [val |-> val, err |-> TypeError(m.type, "name", "string")]
           [] m.key = <<"o","n","l","i","n","e">> ->
                IF m.type = "bool"
                THEN [val |-> [val EXCEPT !.Online = (m.num = 1)], err |-> Nil]
                ELSE [val |-> val, err |-> TypeError(m.type, "online", "bool")]
           [] OTHER -> [val |-> val, err |-> Nil]

\* The decoder walks the members in order, keeps going after a type error
\* and reports the first one.
RECURSIVE StoreAll(_, _, _)
StoreAll(val, saved, members) ==
    IF Len(members) = 0 THEN [val |-> val, err |-> saved]
    ELSE LET r == Store(val, Head(members))
         IN  StoreAll(r.val, IF saved = Nil THEN r.err ELSE saved, Tail(members))

\* A decoder that clears the struct before it looks at the input.
UnmarshalClearFirst(data, c) ==
    LET j == ScanJSON(data)
        z == [c EXCEPT !.val = [ID |-> 0, Name |-> <<>>, Online |-> FALSE]]
    IN  IF c.kind # "struct"
        THEN [err |-> Error("Decode",
                        <<"json: Unmarshal(non-pointer map[string]interface {})">>),
              conf |-> c]
        ELSE IF ~j.ok \/ ~j.object
        THEN [err |-> Error("Decode", <<"json: syntax error">>), conf |-> z]
        ELSE LET r == StoreAll(z.val, Nil, j.members)
             IN  [err |-> r.err, conf |-> [c EXCEPT !.val = r.val]]

\* json.Unmarshal(data, conf): [err, conf].  The input is checked for
\* syntax before anything is stored; only a pointer can be decoded into.
Unmarshal(data, c) ==
    LET j == ScanJSON(data)
    IN  IF ~j.ok
        THEN [err |-> Error("Decode", <<"json: syntax error">>), conf |-> c]
        ELSE IF c.kind = "nil"
        THEN [err |-> Error("Decode", <<"json: Unmarshal(nil)">>), conf |-> c]
        ELSE IF c.kind # "struct"
        THEN [err |-> Error("Decode",
                        <<"json: Unmarshal(non-pointer map[string]interface {})">>),
              conf |-> c]
        ELSE IF j.type = "null" THEN [err |-> Nil, conf |-> c]
        ELSE IF ~j.object
        THEN [err |-> Error("Decode", <<"json: cannot unmarshal ", j.type,
                                        " into Go value of type config.testConf">>),
              conf |-> c]
        ELSE LET r == StoreAll(c.val, Nil, j.members)
             IN  [err |-> r.err, conf |-> [c EXCEPT !.val = r.val]]

(***************************************************************************)
(* Package flag, as Parse uses it: a FlagSet named "" with the error       *)
(* handling ContinueOnError, writing to the buffer output.  A flag set is  *)
(* a function from the names of its formal flags to                        *)
(* [bool, def, usage]: whether the flag is boolean, the text of its        *)
(* default and its usage message.                                          *)
(***************************************************************************)
Flag(bool, def, usage) == [bool |-> bool, def |-> def, usage |-> usage]

\* The order in which PrintDefaults visits the flags: by name.
CharRank(c) == IF c \in Lower THEN CHOOSE i \in DOMAIN LowerSeq : LowerSeq[i] = c ELSE 0

RECURSIVE LessText(_, _)
LessText(a, b) ==
    IF Len(b) = 0 THEN FALSE
    ELSE IF Len(a) = 0 THEN TRUE
    ELSE IF Head(a) = Head(b) THEN LessText(Tail(a), Tail(b))
    ELSE CharRank(Head(a)) < CharRank(Head(b))

RECURSIVE SortedNames(_)
SortedNames(names) ==
    IF names = {} THEN <<>>
    ELSE LET n == CHOOSE x \in names : \A y \in names \ {x} : LessText(x, y)
         IN  <<n>> \o SortedNames(names \ {n})

\* strings.ReplaceAll(usage, "\n", "\n    \t")
RECURSIVE IndentLines(_)
IndentLines(t) ==
    IF Len(t) = 0 THEN <<>>
    ELSE (IF Head(t) = "\n" THEN <<"\n    \t">> ELSE <<Head(t)>>) \o IndentLines(Tail(t))

\* One entry of PrintDefaults.
PrintDefault(name, f) ==
    <<"  -">> \o name
        \o (IF f.bool THEN <<>> ELSE <<" ", "string">>)
        \o (IF f.bool /\ Len(name) = 1 THEN <<"\t">> ELSE <<"\n    \t">>)
        \o IndentLines(f.usage)
        \o (IF f.bool
            THEN (IF f.def = Bool(FALSE) THEN <<>>
                  ELSE <<" (default ">> \o f.def \o <<")">>)
            ELSE (IF f.def = <<>> THEN <<>>
                  ELSE <<" (default ">> \o Quote(f.def) \o <<")">>))
        \o <<"\n">>

RECURSIVE PrintDefaults(_, _)
PrintDefaults(flags, names) ==
    IF Len(names) = 0 THEN <<>>
    ELSE PrintDefault(Head(names), flags[Head(names)]) \o PrintDefaults(flags, Tail(names))

\* FlagSet.defaultUsage for a flag set whose name is empty.
Usage(flags) == <<"Usage:\n">> \o PrintDefaults(flags, SortedNames(DOMAIN flags))

\* FlagSet.failf: the message and the usage go to the output.
Failf(flags, msg) ==
    [err |-> Error("ArgumentParse", msg), out |-> msg \o <<"\n">> \o Usage(flags)]

\* strconv.ParseBool
TrueTexts == {<<"1">>, <<"t">>, <<"T">>, <<"T","R","U","E">>,
              <<"t","r","u","e">>, <<"T","r","u","e">>}
FalseTexts == {<<"0">>, <<"f">>, <<"F">>, <<"F","A","L","S","E">>,
               <<"f","a","l","s","e">>, <<"F","a","l","s","e">>}

\* The index of the first "=" of name after its first character, or 0.
EqualsAt(name) ==
    LET at == {i \in 2..Len(name) : name[i] = "="}
    IN  IF at = {} THEN 0 ELSE CHOOSE i \in at : \A j \in at : i <= j

\* FlagSet.Parse: parseOne until it sees no flag or fails.  st holds the
\* variables the flags are bound to, [configJSON, version]; the result is
\* [err, out, st].
RECURSIVE FlagSetParse(_, _, _)
FlagSetParse(flags, args, st) ==
    LET done == [err |-> Nil, out |-> <<>>, st |-> st]
        fail(msg) == LET f == Failf(flags, msg)
                     IN  [err |-> f.err, out |-> f.out, st |-> st]
    IN
    IF Len(args) = 0 THEN done
    ELSE
    LET s == Head(args)
        rest == Tail(args)
        numMinuses == IF Len(s) >= 2 /\ s[2] = "-" THEN 2 ELSE 1
        full == SubSeq(s, numMinuses + 1, Len(s))
        eq == EqualsAt(full)
        hasValue == eq # 0
        name == IF hasValue THEN SubSeq(full, 1, eq - 1) ELSE full
        value == IF hasValue THEN SubSeq(full, eq + 1, Len(full)) ELSE <<>>
    IN
    IF Len(s) < 2 \/ s[1] # "-" THEN done
    ELSE IF s = <<"-", "-">> THEN done
    ELSE IF Len(full) = 0 \/ full[1] = "-" \/ full[1] = "="
    THEN fail(<<"bad flag syntax: ">> \o s)
    ELSE IF name \notin DOMAIN flags
    THEN IF name = <<"h","e","l","p">> \/ name = <<"h">>
         THEN [err |-> ErrHelp, out |-> Usage(flags), st |-> st]
         ELSE fail(<<"flag provided but not defined: -">> \o name)
    ELSE IF flags[name].bool
    THEN IF ~hasValue
         THEN FlagSetParse(flags, rest, [st EXCEPT ![name] = TRUE])
         ELSE IF value \in TrueTexts \cup FalseTexts
         THEN FlagSetParse(flags, rest, [st EXCEPT ![name] = (value \in TrueTexts)])
         ELSE fail(<<"invalid boolean value ">> \o Quote(value) \o <<" for -">> \o name
                   \o <<": parse error">>)
    ELSE IF hasValue
    THEN FlagSetParse(flags, rest, [st EXCEPT ![name] = value])
    ELSE IF Len(rest) > 0
    THEN FlagSetParse(flags, Tail(rest), [st EXCEPT ![name] = Head(rest)])
    ELSE fail(<<"flag needs an argument: -">> \o name)

(***************************************************************************)
(* Texts the calls are made with.                                          *)
(***************************************************************************)
\* {"id":1,"name":"${NAME}","online":true}
JExample ==
    <<"{","\"","i","d","\"",":","1",",","\"","n","a","m","e","\"",":","\"",
      "$","{","N","A","M","E","}","\"",",","\"","o","n","l","i","n","e",
      "\"",":","t","r","u","e","}">>

\*  {"id":${ID}} 
JSpaced ==
    <<" ","{","\"","i","d","\"",":","$","{","I","D","}","}"," ">>

\* {"id":1,"name":5}
JMismatch ==
    <<"{","\"","i","d","\"",":","1",",","\"","n","a","m","e","\"",":","5",
      "}">>

\* {"name":"${N}"}
JShortName ==
    <<"{","\"","n","a","m","e","\"",":","\"","$","{","N","}","\"","}">>

\* {"name":"${NAME}"}
JName ==
    <<"{","\"","n","a","m","e","\"",":","\"","$","{","N","A","M","E","}",
      "\"","}">>

\* {"id":${ID},"name":"${NAME}"}
JTwo ==
    <<"{","\"","i","d","\"",":","$","{","I","D","}",",","\"","n","a","m","e","\"",":",
      "\"","$","{","N","A","M","E","}","\"","}">>

\* {"id":2}
JId ==
    <<"{","\"","i","d","\"",":","2","}">>

\* {"online":true}
JOnline ==
    <<"{","\"","o","n","l","i","n","e","\"",":","t","r","u","e","}">>

\* CONFIG
sCONFIG ==
    <<"C","O","N","F","I","G">>

\* DOMAIN
sDOMAIN ==
    <<"D","O","M","A","I","N">>

\* config
sConfig ==
    <<"c","o","n","f","i","g">>

\* version
sVersion ==
    <<"v","e","r","s","i","o","n">>

\* The prefixes: two that envVarPrefixRegex accepts (TEST, T_1) and six that
\* it rejects (empty, one letter, lower case, leading or trailing
\* underscore, leading digit).
Prefixes ==
    {<<"T","E","S","T">>, <<"T","_","1">>,
     <<>>, <<"T">>, <<"t","e","s","t">>, <<"_","T","E","S","T">>,
     <<"T","E","S","T","_">>, <<"1","T">>}

\* info: a nil pointer is <<>>, a pointer to a ReleaseInfo is <<r>>.
NilInfo == <<>>

ReleaseInfo(commit, time, release, go) ==
    [GitCommit |-> commit, BuildTimestamp |-> time, ReleaseVersion |-> release,
     GoVersion |-> go]

Infos ==
    {NilInfo,
     <<ReleaseInfo(<<"0">>, <<"n","o","w">>, <<"v","0",".","1",".","0">>,
                   <<"g","o","1">>)>>}

\* The targets a first call is made with.
Targets ==
    {Target("nil", TestConf(0, <<>>, FALSE)),
     Target("chan", TestConf(0, <<>>, FALSE)),
     Target("map", TestConf(0, <<>>, FALSE)),
     Target("struct", TestConf(0, <<>>, FALSE)),
     Target("struct", TestConf(7, <<"x">>, TRUE))}

\* The environments: functions from the names that are set to their values.

Environments ==
    {<<>>,
     (<<"T","E","S","T","_","N","A","M","E">> :> <<"B","o","b">>)
        @@ (<<"T","E","S","T","_","I","D">> :> <<"4","2">>)
        @@ (<<"N","A","M","E">> :> <<"Z","e","d">>)
        @@ (<<"T","E","S","T","N","A","M","E">> :> <<"A","n","n">>)
        @@ (<<"T","_","1","_","N","A","M","E">> :> <<"E","v","e">>),
     (<<"T","E","S","T","_","C","O","N","F","I","G">> :> JName)
        @@ (<<"T","E","S","T","_","N","A","M","E">> :> <<"$","{","O","T","H","E","R","}">>)
        @@ (<<"T","E","S","T","_","O","T","H","E","R">> :> <<"E","v","e">>),
     (<<"T","E","S","T","_","C","O","N","F","I","G">> :> JId)
        @@ (<<"T","E","S","T","_","I","D">> :> <<"5">>)
        @@ (<<"T","_","1","_","C","O","N","F","I","G">> :> JOnline)}

\* The arguments: os.Args is the program name followed by one of these.
OptC == <<"-","c">>
OptConfig == <<"-","-","c","o","n","f","i","g">>
OptV == <<"-","v">>
OptVersion == <<"-","-","v","e","r","s","i","o","n">>
OptH == <<"-","h">>
OptHelp == <<"-","-","h","e","l","p">>

ArgLists ==
    {<<>>,
     <<OptH>>,
     <<OptHelp>>,
     <<OptV>>,
     <<OptVersion>>,
     <<OptC, JExample>>,
     <<OptConfig, JExample>>,
     <<OptC, JId>>,
     <<OptConfig, JId>>,
     <<OptConfig, JSpaced>>,
     <<OptConfig, JTwo>>,
     <<OptConfig, JMismatch>>,
     <<OptConfig \o <<"=">> \o JShortName>>,
     <<OptVersion, OptConfig, JExample>>,
     <<OptConfig, JExample, OptH>>,
     <<OptConfig>>,
     <<OptVersion \o <<"=","x">>>>,
     <<OptConfig, JId, OptVersion \o <<"=","0">>>>,
     <<<<"-","-","b","o","g","u","s">>>>}

(***************************************************************************)
(* Parse (src/config.go, lines 102-177), one action per stage.             *)
(***************************************************************************)
Return(text, e) == [text |-> text, err |-> e]

\* A normalization that forgets the separator.
NormalizeNoSeparator(prefix) == Trim(ToUpper(prefix), {"_"})

\* Line 109: strings.Trim(strings.ToUpper(envVarPrefix), "_") + "_"
Normalize(prefix) == Trim(ToUpper(prefix), {"_"}) \o <<"_">>

\* Lines 145-153: the release text; fmt.Sprintln() is a newline.
Sprintln == <<"\n">>

ReleaseTextSwapped(i) ==
    LET r == IF i = NilInfo THEN ReleaseInfo(<<>>, <<>>, <<>>, <<>>) ELSE i[1]
    IN  <<"Release: ">> \o r.GitCommit \o Sprintln
            \o <<"Commit: ">> \o r.ReleaseVersion \o Sprintln
            \o <<"Build Time: ">> \o r.BuildTimestamp \o Sprintln
            \o <<"Built with: ">> \o r.GoVersion \o <<"\n">>

ReleaseText(i) ==
    LET r == IF i = NilInfo THEN ReleaseInfo(<<>>, <<>>, <<>>, <<>>) ELSE i[1]
    IN  <<"Release: ">> \o r.ReleaseVersion \o Sprintln
            \o <<"Commit: ">> \o r.GitCommit \o Sprintln
            \o <<"Build Time: ">> \o r.BuildTimestamp \o Sprintln
            \o <<"Built with: ">> \o r.GoVersion \o <<"\n">>

\* Line 130: the usage message of the flag "config".
ConfigUsage(prefix, example) ==
    <<"JSON string describing the configuration options, JSON values can be placeholders for environment variables that start with '">>
        \o prefix
        \o <<"' e.g '${DOMAIN}' is replaced with the value of environment variable '">>
        \o getEnvKey(prefix, sDOMAIN)
        \o <<"', example: ">> \o example \o <<".">>

Init ==
    /\ conf \in Targets
    /\ osArgs = <<<<>>>>
    /\ environ = <<>>
    /\ envVarPrefix = <<>>
    /\ info = NilInfo
    /\ confRef = <<>>
    /\ fs = <<>>
    /\ output = <<>>
    /\ configJSON = <<>>
    /\ version = FALSE
    /\ err = Nil
    /\ ret = Return(<<>>, Nil)
    /\ pc = "idle"
    /\ calls = 0
    /\ prefixArg = <<>>
    /\ confArg = conf
    /\ envReads = {}
    /\ argsRead = FALSE
    /\ resolved = <<>>
    /\ decoderInput = <<>>

\* The caller sets os.Args and the environment and calls Parse.
Call ==
    /\ pc \in {"idle", "done"}
    /\ calls < MaxCalls
    /\ \E p \in Prefixes, i \in Infos, e \in Environments, a \in ArgLists :
          /\ envVarPrefix' = p
          /\ prefixArg' = p
          /\ info' = i
          /\ environ' = e
          /\ osArgs' = <<<<>>>> \o a
    /\ calls' = calls + 1
    /\ confArg' = conf
    /\ confRef' = <<>>
    /\ fs' = <<>>
    /\ output' = <<>>
    /\ configJSON' = <<>>
    /\ version' = FALSE
    /\ err' = Nil
    /\ ret' = Return(<<>>, Nil)
    /\ envReads' = {}
    /\ argsRead' = FALSE
    /\ resolved' = <<>>
    /\ decoderInput' = <<>>
    /\ pc' = "validate"
    /\ UNCHANGED conf

\* Lines 105-109: the prefix is checked, then normalized.
ValidatePrefix ==
    /\ pc = "validate"
    /\ IF ~envVarPrefixRegex(envVarPrefix)
       THEN /\ ret' = Return(<<>>, Error("InvalidPrefix",
                         <<"environment variable prefix [">> \o envVarPrefix
                         \o <<"] must start with a letter then letters or underscores">>))
            /\ pc' = "done"
            /\ UNCHANGED envVarPrefix
       ELSE /\ envVarPrefix' = Normalize(envVarPrefix)
            /\ pc' = "marshal"
            /\ UNCHANGED ret
    /\ UNCHANGED <<osArgs, environ, info, conf, confRef, fs, output, configJSON,
                   version, err, calls, prefixArg, confArg, envReads, argsRead,
                   resolved, decoderInput>>

\* Lines 122-124: the target is rendered for the usage message.
MarshalExample ==
    /\ pc = "marshal"
    /\ LET r == MarshalIndent(conf, <<" ", " ">>, <<" ", " ">>)
       IN  /\ confRef' = r.json
           /\ err' = r.err
           /\ IF r.err # Nil
              THEN ret' = Return(<<>>, r.err) /\ pc' = "done"
              ELSE pc' = "flags" /\ UNCHANGED ret
    /\ UNCHANGED <<osArgs, environ, envVarPrefix, info, conf, fs, output,
                   configJSON, version, calls, prefixArg, confArg, envReads,
                   argsRead, resolved, decoderInput>>

\* Lines 127-132: the flags "config" and "version" are registered; the
\* default of "config" is read from the environment.
RegisterFlags ==
    /\ pc = "flags"
    /\ LET def == getEnv(environ, envVarPrefix, sCONFIG, <<"{", "}">>)
       IN  /\ fs' = (sConfig :> Flag(FALSE, def, ConfigUsage(envVarPrefix, confRef)))
                    @@ (sVersion :> Flag(TRUE, Bool(FALSE),
                                         <<"Prints the version and exits">>))
           /\ configJSON' = def
    /\ version' = FALSE
    /\ envReads' = envReads \cup {getEnvKey(envVarPrefix, sCONFIG)}
    /\ pc' = "parse"
    /\ UNCHANGED <<osArgs, environ, envVarPrefix, info, conf, confRef, output,
                   err, ret, calls, prefixArg, confArg, argsRead, resolved,
                   decoderInput>>

\* A parse step that treats flag.ErrHelp like every other error.
ParseArgsHelpIsError ==
    /\ pc = "parse"
    /\ LET r == FlagSetParse(fs, Tail(osArgs),
                             (sConfig :> configJSON) @@ (sVersion :> version))
       IN  /\ output' = r.out
           /\ configJSON' = r.st[sConfig]
           /\ version' = r.st[sVersion]
           /\ err' = r.err
           /\ IF r.err # Nil
              THEN ret' = Return(r.out, r.err) /\ pc' = "done"
              ELSE pc' = "version" /\ UNCHANGED ret
    /\ argsRead' = TRUE
    /\ UNCHANGED <<osArgs, environ, envVarPrefix, info, conf, confRef, fs, calls,
                   prefixArg, confArg, envReads, resolved, decoderInput>>

\* Lines 135-139: os.Args[1:] is parsed.
ParseArgs ==
    /\ pc = "parse"
    /\ LET r == FlagSetParse(fs, Tail(osArgs),
                             (sConfig :> configJSON) @@ (sVersion :> version))
       IN  /\ output' = r.out
           /\ configJSON' = r.st[sConfig]
           /\ version' = r.st[sVersion]
           /\ err' = r.err
           /\ IF r.err = ErrHelp
              THEN ret' = Return(r.out, Nil) /\ pc' = "done"
              ELSE IF r.err # Nil
              THEN ret' = Return(r.out, r.err) /\ pc' = "done"
              ELSE pc' = "version" /\ UNCHANGED ret
    /\ argsRead' = TRUE
    /\ UNCHANGED <<osArgs, environ, envVarPrefix, info, conf, confRef, fs, calls,
                   prefixArg, confArg, envReads, resolved, decoderInput>>

\* Lines 144-154: the release text when the version was asked for.
CheckVersion ==
    /\ pc = "version"
    /\ IF version
       THEN ret' = Return(ReleaseText(info), Nil) /\ pc' = "done"
       ELSE pc' = "substitute" /\ UNCHANGED ret
    /\ UNCHANGED <<osArgs, environ, envVarPrefix, info, conf, confRef, fs, output,
                   configJSON, version, err, calls, prefixArg, confArg, envReads,
                   argsRead, resolved, decoderInput>>

\* Lines 161-165: the placeholders are replaced by their environment values.
Substitute ==
    /\ pc = "substitute"
    /\ resolved' = <<configJSON>>
    /\ configJSON' = ReplaceAllStringFunc(configJSON, environ, envVarPrefix)
    /\ envReads' = envReads \cup PlaceholderKeys(configJSON, envVarPrefix)
    /\ pc' = "decode"
    /\ UNCHANGED <<osArgs, environ, envVarPrefix, info, conf, confRef, fs, output,
                   version, err, ret, calls, prefixArg, confArg, argsRead,
                   decoderInput>>

\* Lines 167-176: the text is decoded into the target, unless conf is nil.
Decode ==
    /\ pc = "decode"
    /\ IF conf.kind # "nil"
       THEN LET r == Unmarshal(TrimSpace(configJSON), conf)
            IN  /\ decoderInput' = <<TrimSpace(configJSON)>>
                /\ conf' = r.conf
                /\ err' = r.err
                /\ ret' = IF r.err # Nil THEN Return(<<>>, r.err)
                          ELSE Return(output, Nil)
       ELSE /\ ret' = Return(output, Nil)
            /\ UNCHANGED <<conf, err, decoderInput>>
    /\ pc' = "done"
    /\ UNCHANGED <<osArgs, environ, envVarPrefix, info, confRef, fs, output,
                   configJSON, version, calls, prefixArg, confArg, envReads,
                   argsRead, resolved>>

Next ==
    \/ Call
    \/ ValidatePrefix
    \/ MarshalExample
    \/ RegisterFlags
    \/ ParseArgs
    \/ CheckVersion
    \/ Substitute
    \/ Decode

Spec == Init /\ [][Next]_vars

(***************************************************************************)
(* The properties.  What they expect is stated independently of the        *)
(* operators above: the pattern of a valid prefix, the placeholders of a   *)
(* text and the text with each placeholder replaced once.                  *)
(***************************************************************************)
Done == pc = "done"

\* ^[A-Z][A-Z0-9_]*[A-Z0-9]$
SpecPattern(s) ==
    /\ Len(s) >= 2
    /\ \A i \in DOMAIN s : s[i] \in Upper \cup Digit \cup {"_"}
    /\ s[1] \in Upper
    /\ s[Len(s)] # "_"

\* s[i..j] is a placeholder ${NAME}.
SpecIsPlaceholder(s, i, j) ==
    /\ j >= i + 4
    /\ s[i] = "$" /\ s[i + 1] = "{" /\ s[j] = "}"
    /\ SpecPattern(SubSeq(s, i + 2, j - 1))

SpecPlaceholders(s) ==
    {p \in (DOMAIN s) \X (DOMAIN s) : SpecIsPlaceholder(s, p[1], p[2])}

SpecNames(s) == {SubSeq(s, p[1] + 2, p[2] - 1) : p \in SpecPlaceholders(s)}

\* The value of the environment variable <prefix>_<name>, empty if undefined.
SpecValue(env, prefix, name) ==
    LET key == prefix \o <<"_">> \o name
    IN  IF key \in DOMAIN env THEN env[key] ELSE <<>>

\* s with every placeholder replaced once, left to right.
RECURSIVE SpecSubstituted(_, _, _)
SpecSubstituted(s, env, prefix) ==
    LET ps == SpecPlaceholders(s)
    IN  IF ps = {} THEN s
        ELSE LET p == CHOOSE q \in ps : \A r \in ps : q[1] <= r[1]
             IN  SubSeq(s, 1, p[1] - 1)
                     \o SpecValue(env, prefix, SubSeq(s, p[1] + 2, p[2] - 1))
                     \o SpecSubstituted(SubSeq(s, p[2] + 1, Len(s)), env, prefix)

SpecInvalidPrefixError(prefix) ==
    [kind |-> "InvalidPrefix",
     msg |-> <<"environment variable prefix [">> \o prefix
             \o <<"] must start with a letter then letters or underscores">>]

SpecReleaseText(release, commit, time, go) ==
    <<"Release: ">> \o release \o <<"\n", "Commit: ">> \o commit
        \o <<"\n", "Build Time: ">> \o time \o <<"\n", "Built with: ">> \o go
        \o <<"\n">>

\* t is a usage text: the heading and an entry for each of the two options.
SpecIsUsageText(t) ==
    /\ Len(t) > 0
    /\ t[1] = "Usage:\n"
    /\ \E i \in DOMAIN t : t[i] = "  -" /\ SubSeq(t, i + 1, i + Len(sConfig)) = sConfig
    /\ \E i \in DOMAIN t : t[i] = "  -" /\ SubSeq(t, i + 1, i + Len(sVersion)) = sVersion

\* The values the arguments give to the option --config.
SpecConfigValues(args) ==
    {args[i + 1] : i \in {k \in 1..(Len(args) - 1) : args[k] = OptConfig}}
        \cup {SubSeq(args[i], Len(OptConfig) + 2, Len(args[i])) :
                i \in {k \in DOMAIN args : HasPrefix(args[k], OptConfig \o <<"=">>)}}

sTEST == <<"T","E","S","T">>
sNAME == <<"N","A","M","E">>
sOTHER == <<"O","T","H","E","R">>
sTestPrefix == <<"t","e","s","t">>

SpecTypeError(e) == e.kind = "Decode" /\ Head(e.msg) = "json: cannot unmarshal "

\* C1: for every prefix that does not match ^[A-Z][A-Z0-9_]*[A-Z0-9]$, the
\* empty one included, Parse returns empty text and the error "environment
\* variable prefix [<prefix>] must start with a letter then letters or
\* underscores" with the prefix verbatim; the call reads no environment
\* variable and no argument, registers no flag and leaves the target as it
\* was, whatever the arguments, the environment and the target are.
C1_InvalidPrefix ==
    (calls > 0 /\ ~SpecPattern(prefixArg)) =>
        /\ pc \in {"validate", "done"}
        /\ envReads = {}
        /\ ~argsRead
        /\ DOMAIN fs = {}
        /\ decoderInput = <<>>
        /\ conf = confArg
        /\ Done => ret = [text |-> <<>>, err |-> SpecInvalidPrefixError(prefixArg)]

C1_Witness ==
    /\ Done
    /\ prefixArg = sTestPrefix
    /\ ret.err = SpecInvalidPrefixError(sTestPrefix)
    /\ Tail(osArgs) = <<OptConfig, JExample>>
    /\ DOMAIN environ # {}
    /\ conf.kind = "struct"

\* C2 as claimed: for a valid prefix, when argument parsing succeeds and the
\* version option is not set, Parse replaces every placeholder by the value
\* of <prefix>_<NAME> (empty when undefined), trims the result, decodes it
\* into the target and returns empty text with a nil error.
C2_AlwaysSucceeds ==
    (Done /\ resolved # <<>>) =>
        /\ confArg.kind # "nil" =>
              decoderInput = <<TrimSpace(SpecSubstituted(resolved[1], environ, prefixArg))>>
        /\ ret = [text |-> <<>>, err |-> Nil]

\* C2 as amended: for a valid prefix, when argument parsing succeeds and the
\* version option is not set, Parse replaces every placeholder by the value
\* of <prefix>_<NAME> (empty when undefined), trims the result and, unless
\* the target is nil, decodes it into the target in place; it returns empty
\* text with the error of the decoder: nil when the decoding succeeds or the
\* target is nil, the decode error otherwise.  With prefix TEST,
\* TEST_NAME=Bob and {"id":1,"name":"${NAME}","online":true} a testConf
\* target ends with id=1, name="Bob", online=true and the error is nil.
C2_SubstituteTrimDecode ==
    (Done /\ resolved # <<>>) =>
        LET text == TrimSpace(SpecSubstituted(resolved[1], environ, prefixArg))
            r == Unmarshal(text, confArg)
            bob == sTEST \o <<"_">> \o sNAME
        IN  /\ SpecPattern(prefixArg)
            /\ IF confArg.kind = "nil"
               THEN decoderInput = <<>> /\ conf = confArg
                    /\ ret = [text |-> <<>>, err |-> Nil]
               ELSE decoderInput = <<text>> /\ conf = r.conf
                    /\ ret = [text |-> <<>>, err |-> r.err]
            /\ ( /\ prefixArg = sTEST
                 /\ resolved[1] = JExample
                 /\ bob \in DOMAIN environ
                 /\ environ[bob] = <<"B","o","b">>
                 /\ confArg.kind = "struct" ) =>
                    /\ conf.val = [ID |-> 1, Name |-> <<"B","o","b">>, Online |-> TRUE]
                    /\ ret.err = Nil

C2_Witness ==
    /\ Done
    /\ prefixArg = sTEST
    /\ resolved = <<JExample>>
    /\ confArg = Target("struct", TestConf(0, <<>>, FALSE))
    /\ conf.val = [ID |-> 1, Name |-> <<"B","o","b">>, Online |-> TRUE]
    /\ ret = [text |-> <<>>, err |-> Nil]

\* C3: for a valid prefix and a serializable target, whenever argument
\* parsing succeeds with the version option set, Parse returns exactly
\* "Release: <ReleaseVersion>\nCommit: <GitCommit>\nBuild Time:
\* <BuildTimestamp>\nBuilt with: <GoVersion>\n" with a nil error, the four
\* fields empty when info is nil, whatever configuration string the flag or
\* the environment holds, and the target is not written.
C3_VersionText ==
    (Done /\ argsRead /\ err = Nil /\ version) =>
        /\ SpecPattern(prefixArg) /\ confArg.kind # "chan"
        /\ ret.err = Nil
        /\ ret.text = IF info = <<>>
                      THEN SpecReleaseText(<<>>, <<>>, <<>>, <<>>)
                      ELSE SpecReleaseText(info[1].ReleaseVersion, info[1].GitCommit,
                                           info[1].BuildTimestamp, info[1].GoVersion)
        /\ conf = confArg
        /\ decoderInput = <<>>

C3_Witness ==
    /\ Done
    /\ Tail(osArgs) = <<OptVersion, OptConfig, JExample>>
    /\ info # <<>>
    /\ confArg.kind = "struct"
    /\ DOMAIN environ # {}
    /\ ret.err = Nil
    /\ Head(ret.text) = "Release: "

\* C4 as claimed: for a valid prefix and the arguments ["-h"], Parse returns
\* the usage text and a nil error for every target and never writes to it.
C4_HelpForEveryTarget ==
    (Done /\ SpecPattern(prefixArg) /\ Tail(osArgs) = <<OptH>>) =>
        /\ ret.err = Nil
        /\ SpecIsUsageText(ret.text)
        /\ conf = confArg

\* C4 as amended: for a valid prefix, the arguments ["-h"] and a target
\* that can be serialized to JSON, Parse returns the usage text and a nil
\* error, whatever the target holds, and never writes to the target.
C4_HelpForSerializableTarget ==
    (calls > 0 /\ SpecPattern(prefixArg) /\ Tail(osArgs) = <<OptH>>
        /\ confArg.kind # "chan") =>
        /\ conf = confArg
        /\ decoderInput = <<>>
        /\ Done => (ret.err = Nil /\ SpecIsUsageText(ret.text))

C4_Witness ==
    /\ Done
    /\ SpecPattern(prefixArg)
    /\ Tail(osArgs) = <<OptH>>
    /\ confArg = Target("struct", TestConf(7, <<"x">>, TRUE))
    /\ ret.err = Nil
    /\ SpecIsUsageText(ret.text)

\* C5: for a valid prefix and a target that cannot be serialized to JSON,
\* Parse returns empty text and the error of the encoder, unmodified, before
\* any flag is registered or any argument parsed, for every argument list
\* (help, version and malformed ones included) and every environment; no
\* help or version text is ever returned for such a target.
C5_SerializationFirst ==
    (calls > 0 /\ SpecPattern(prefixArg) /\ confArg.kind = "chan") =>
        /\ pc \in {"validate", "marshal", "done"}
        /\ DOMAIN fs = {}
        /\ ~argsRead
        /\ conf = confArg
        /\ Done => ret = [text |-> <<>>,
                          err |-> [kind |-> "Serialization",
                                   msg |-> <<"json: unsupported type: chan int">>]]

C5_Witness ==
    /\ Done
    /\ SpecPattern(prefixArg)
    /\ confArg.kind = "chan"
    /\ Tail(osArgs) = <<OptHelp>>
    /\ ret.err.kind = "Serialization"
    /\ ret.text = <<>>

\* C6: the short forms are aliases of the long forms: ["-c", J] gives the
\* result and the final target of ["--config", J] and ["-v"] the result of
\* ["--version"]; in particular ["-c", J] with valid JSON J populates the
\* target and returns empty text with a nil error, and ["-v"] returns the
\* release text with a nil error.
C6_ShortFormsAreAliases ==
    (Done /\ SpecPattern(prefixArg) /\ confArg.kind = "struct") =>
        /\ Tail(osArgs) = <<OptC, JId>> =>
              (ret = [text |-> <<>>, err |-> Nil] /\ conf.val.ID = 2)
        /\ Tail(osArgs) = <<OptV>> =>
              (ret.err = Nil /\ Len(ret.text) > 0 /\ Head(ret.text) = "Release: ")

\* C7 as claimed: the configuration string that is substituted and decoded
\* is the value given to the config option when the option appears in the
\* arguments, even when <PREFIX>_CONFIG is set; otherwise the value of
\* <PREFIX>_CONFIG when it is set; otherwise "{}", and then Parse returns
\* empty text with a nil error and the target keeps its prior values.
C7_PrecedenceAnyTarget ==
    resolved # <<>> =>
        LET vals == SpecConfigValues(Tail(osArgs))
            key == prefixArg \o <<"_">> \o sCONFIG
        IN  IF vals # {} THEN resolved[1] \in vals
            ELSE IF key \in DOMAIN environ THEN resolved[1] = environ[key]
            ELSE /\ resolved[1] = <<"{", "}">>
                 /\ Done => (ret = [text |-> <<>>, err |-> Nil] /\ conf = confArg)

\* C7 as amended: the configuration string that is substituted and decoded
\* is the value given to the config option when the option appears in the
\* arguments, even when <PREFIX>_CONFIG is set; otherwise the value of
\* <PREFIX>_CONFIG when it is set; otherwise "{}", and then the target keeps
\* its prior values and Parse returns empty text with a nil error when the
\* target is nil or a pointer, and with the error of the decoder when the
\* target is passed by value.
C7_Precedence ==
    resolved # <<>> =>
        LET vals == SpecConfigValues(Tail(osArgs))
            key == prefixArg \o <<"_">> \o sCONFIG
        IN  IF vals # {} THEN resolved[1] \in vals
            ELSE IF key \in DOMAIN environ THEN resolved[1] = environ[key]
            ELSE /\ resolved[1] = <<"{", "}">>
                 /\ Done =>
                       /\ conf = confArg
                       /\ ret.text = <<>>
                       /\ IF confArg.kind = "map"
                          THEN ret.err.kind = "Decode" /\ ~SpecTypeError(ret.err)
                          ELSE ret.err = Nil

C7_Witness ==
    /\ Done
    /\ prefixArg = sTEST
    /\ Tail(osArgs) = <<OptConfig, JId>>
    /\ (sTEST \o <<"_">> \o sCONFIG) \in DOMAIN environ
    /\ environ[sTEST \o <<"_">> \o sCONFIG] = JName
    /\ resolved = <<JId>>
    /\ confArg.kind = "struct"
    /\ conf.val.ID = 2

\* C8 as claimed: every call ends in success (nil error) or in failure with
\* exactly one error kind (invalid prefix, serialization, argument parse,
\* decode); on every call that returns an error the target holds the value
\* it had before the call, and the target is modified only by calls that
\* return empty text with a nil error.
C8_ErrorLeavesTarget ==
    /\ Done =>
          /\ ret.err.kind \in {"nil", "InvalidPrefix", "Serialization",
                               "ArgumentParse", "Decode"}
          /\ ret.err # Nil => conf = confArg
    /\ conf # confArg => (Done /\ ret = [text |-> <<>>, err |-> Nil])

\* C8 as amended: every call ends in success (nil error) or in failure with
\* exactly one error kind (invalid prefix, serialization, argument parse,
\* decode); on every call that returns an invalid prefix, serialization or
\* argument parse error, or a decode error other than a type mismatch, the
\* target holds the value it had before the call; the target is modified
\* only by calls that hand well-formed JSON to the decoder and return empty
\* text with a nil error or with a type mismatch error, the fields that
\* decoded being written in the latter case.
C8_TargetWrittenOnlyByDecoder ==
    /\ Done =>
          /\ ret.err.kind \in {"nil", "InvalidPrefix", "Serialization",
                               "ArgumentParse", "Decode"}
          /\ (ret.err # Nil /\ ~SpecTypeError(ret.err)) => conf = confArg
    /\ conf # confArg =>
          /\ Done
          /\ decoderInput # <<>>
          /\ ScanJSON(decoderInput[1]).ok
          /\ ret.text = <<>>
          /\ ret.err = Nil \/ SpecTypeError(ret.err)

C8_Witness ==
    /\ Done
    /\ confArg = Target("struct", TestConf(7, <<"x">>, TRUE))
    /\ decoderInput # <<>>
    /\ ret.err.kind = "Decode"
    /\ ~SpecTypeError(ret.err)
    /\ conf = confArg

\* C9: the substitution is textual and single-pass: each placeholder of the
\* original configuration string is replaced once by its environment value
\* and the text a replacement introduces is not scanned again, so a value
\* of the form ${OTHER} reaches the JSON decoder verbatim even when
\* <PREFIX>_OTHER is set.
C9_SinglePass ==
    /\ (resolved # <<>> /\ pc \in {"decode", "done"}) =>
          configJSON = SpecSubstituted(resolved[1], environ, prefixArg)
    /\ decoderInput # <<>> =>
          /\ resolved # <<>>
          /\ decoderInput[1] = TrimSpace(SpecSubstituted(resolved[1], environ, prefixArg))
          /\ \A n \in SpecNames(resolved[1]) :
                LET v == SpecValue(environ, prefixArg, n)
                IN  \E i \in 1..(Len(decoderInput[1]) + 1) :
                       SubSeq(decoderInput[1], i, i + Len(v) - 1) = v

C9_Witness ==
    /\ Done
    /\ prefixArg = sTEST
    /\ resolved = <<JName>>
    /\ (sTEST \o <<"_">> \o sOTHER) \in DOMAIN environ
    /\ SpecValue(environ, sTEST, sNAME) = <<"$", "{">> \o sOTHER \o <<"}">>
    /\ decoderInput = <<<<"{","\"","n","a","m","e","\"",":","\"","$","{","O","T","H","E","R","}","\"","}">>>>
    /\ conf.kind = "struct"
    /\ conf.val.Name = <<"$", "{">> \o sOTHER \o <<"}">>

\* C10: for every prefix that passes the validation, the normalization
\* (upper case, trim the underscores, append one underscore) yields the
\* prefix followed by one underscore, so the only environment variables
\* Parse reads are <prefix>_CONFIG and <prefix>_<NAME> for the placeholder
\* names of the configuration string; no prefix reaches the normalization in
\* a form that upper-casing or trimming changes: "test" is rejected, not
\* normalized to "TEST_".
C10_NormalizationIsIdentity ==
    /\ (calls > 0 /\ pc # "validate" /\ ~(Done /\ ret.err.kind = "InvalidPrefix")) =>
          /\ ToUpper(prefixArg) = prefixArg
          /\ Trim(prefixArg, {"_"}) = prefixArg
          /\ envVarPrefix = prefixArg \o <<"_">>
    /\ (Done /\ ToUpper(prefixArg) # prefixArg) => ret.err.kind = "InvalidPrefix"
    /\ envReads \subseteq
          {prefixArg \o <<"_">> \o sCONFIG}
              \cup (IF resolved = <<>> THEN {}
                    ELSE {prefixArg \o <<"_">> \o n : n \in SpecNames(resolved[1])})

C10_Witness ==
    /\ Done
    /\ prefixArg = <<"T","_","1">>
    /\ envVarPrefix = <<"T","_","1","_">>
    /\ resolved = <<JExample>>
    /\ envReads = {<<"T","_","1","_","C","O","N","F","I","G">>,
                   <<"T","_","1","_","N","A","M","E">>}

====
